---------------------------- MODULE Spec2Model ----------------------------
(***************************************************************************)
(* Chou-Fasman secondary structure prediction (chou_fasman_predictor.py):  *)
(* nucleation scan, segment extension, segment merging, label projection   *)
(* and conflict resolution, as a state machine.                            *)
(*                                                                         *)
(* Numbers.  Propensities are decimal literals with two places and the     *)
(* strand threshold is 4.0000001, so every propensity, sum and threshold   *)
(* is kept as an integer count of 10^-7.  For the residues of Residues the *)
(* double-precision sums the program computes compare with the thresholds  *)
(* and with each other exactly as these integer sums do: the one window    *)
(* sum that meets a threshold exactly is 1.0 + 1.0 + 1.0 + 1.0, which is   *)
(* exact in binary, and two region sums are equal only when both are 0.0.  *)
(*                                                                         *)
(* Indices.  Lists indexed by residue (SEQ, the propensity lists, the      *)
(* label lists) are functions on 0..N-1, as in the program.  Lists of      *)
(* segments are sequences of pairs <<start, end>>.                         *)
(***************************************************************************)
EXTENDS Integers, Sequences, FiniteSets

VARIABLES
    SEQ,               \* the filtered input sequence, 0-based
    pc,                \* position in the script
    i,                 \* loop index of the running scan
    s, e,              \* the segment being extended (extend_segment's start, end)
    changed,           \* extend_segment's loop flag
    reads,             \* indices of prop_list named by the last round of extend_segment
    seeds_H, seeds_S,  \* the windows seeded so far, in the order they were seeded
    helix_segments,
    strand_segments,
    segments,          \* the argument of the last call of merge_segments
    labels_H,
    labels_S,
    conflict_regions,
    final_labels,
    resolved_choices

vars == <<SEQ, pc, i, s, e, changed, reads, seeds_H, seeds_S, helix_segments,
          strand_segments, segments, labels_H, labels_S, conflict_regions,
          final_labels, resolved_choices>>

---------------------------------------------------------------------------
(* Bounds of the model *)

\* longest sequence the whole pipeline is run on
MaxN == 8

\* longest sequence extend_segment alone is run on
MaxExtLen == 6

\* longest sequence the resolver alone is run on
MaxResLen == 3

\* merge_segments alone: segments lie in 0..MaxPos, lists hold up to MaxSegs
MaxPos == 4

MaxSegs == 3

\* Residue codes the input is drawn from.  E nucleates helix only, I
\* nucleates strand only and is exactly 1.00 in the helix table, X is a
\* letter in neither table.
Residues == {"E", "I", "X"}

---------------------------------------------------------------------------
(* Propensity tables, in units of 10^-7 *)

P_ALPHA ==
    [E |-> 15300000, A |-> 14500000, L |-> 13400000, H |-> 12400000,
     M |-> 12000000, Q |-> 11700000, W |-> 11400000, V |-> 11400000,
     F |-> 11200000, K |-> 10700000, I |-> 10000000, D |->  9800000,
     T |->  8200000, S |->  7900000, R |->  7900000, C |->  7700000,
     N |->  7300000, Y |->  6100000, P |->  5900000, G |->  5300000]

P_BETA ==
    [M |-> 16700000, V |-> 16500000, I |-> 16000000, C |-> 13000000,
     Y |-> 12900000, F |-> 12800000, Q |-> 12300000, L |-> 12200000,
     T |-> 12000000, W |-> 11900000, A |->  9700000, R |->  9000000,
     G |->  8100000, D |->  8000000, K |->  7400000, S |->  7200000,
     H |->  7100000, N |->  6500000, P |->  6200000, E |->  2600000]

\* the literal 1.0 of window_has_min_over_1
One == 10000000

\* threshold_sum of the helix extension, 4.0
threshold_H == 40000000

\* threshold_sum of the strand extension, 4.0000001
threshold_S == 40000001

wH == 6

wS == 5

pa(res) == IF res \in DOMAIN P_ALPHA THEN P_ALPHA[res] ELSE 0

pb(res) == IF res \in DOMAIN P_BETA THEN P_BETA[res] ELSE 0

N == Cardinality(DOMAIN SEQ)

Palpha_list == [k \in DOMAIN SEQ |-> pa(SEQ[k])]

Pbeta_list == [k \in DOMAIN SEQ |-> pb(SEQ[k])]

---------------------------------------------------------------------------
(* Python list access *)

Min(a, b) == IF a <= b THEN a ELSE b

Max(a, b) == IF a >= b THEN a ELSE b

\* lst[k] raises IndexError unless -len <= k < len
IndexRaises(n, k) == k >= n \/ k < -n

\* lst[k] for an index that does not raise: a negative k counts from the end
ListGet(lst, n, k) == IF k < 0 THEN lst[k + n] ELSE lst[k]

\* a slice bound as Python clips it
SliceBound(n, k) == IF k < 0 THEN Max(k + n, 0) ELSE Min(k, n)

RECURSIVE SumRange(_, _, _)
SumRange(lst, lo, hi) ==
    IF lo >= hi THEN 0 ELSE lst[lo] + SumRange(lst, lo + 1, hi)

\* sum(lst[a:b])
SumSlice(lst, n, a, b) == SumRange(lst, SliceBound(n, a), SliceBound(n, b))

RECURSIVE CountOver1(_, _, _)
CountOver1(lst, lo, hi) ==
    IF lo >= hi THEN 0
    ELSE (IF lst[lo] > One THEN 1 ELSE 0) + CountOver1(lst, lo + 1, hi)

\* Variant: entries equal to 1.0 are counted too (>= for >).
RECURSIVE CountFrom1(_, _, _)
CountFrom1(lst, lo, hi) ==
    IF lo >= hi THEN 0
    ELSE (IF lst[lo] >= One THEN 1 ELSE 0) + CountFrom1(lst, lo + 1, hi)

window_has_min_from_1(lst, n, a, b, min_count) ==
    CountFrom1(lst, SliceBound(n, a), SliceBound(n, b)) >= min_count

\* Variant: one entry fewer than min_count is enough.
window_has_one_less(lst, n, a, b, min_count) ==
    CountOver1(lst, SliceBound(n, a), SliceBound(n, b)) >= min_count - 1

\* window_has_min_over_1(lst[a:b], min_count)
window_has_min_over_1(lst, n, a, b, min_count) ==
    CountOver1(lst, SliceBound(n, a), SliceBound(n, b)) >= min_count

---------------------------------------------------------------------------
(* extend_segment *)

LeftGuard(start, end) == start > 0 /\ end - start + 1 >= 3

\* Variant: the right test does not look at the end of the sequence.
RightGuard_unbounded(end, start, seq_len) == end - start + 1 >= 3

RightGuard(end, start, seq_len) == end < seq_len - 1 /\ end - start + 1 >= 3

MeetsThreshold(total, threshold_sum) == total >= threshold_sum

\* Variant: growth on the right does not set the flag.
RoundChanged_left_only(growL, tryR, growR) == growL

\* Variant: the right branch sets the flag before its sum test.
RoundChanged_right_tried(growL, tryR, growR) == growL \/ tryR

\* the flag after a pass: set where the left or the right test passed
RoundChanged(growL, tryR, growR) == growL \/ growR

\* One pass of the body of the while loop.  raised: an element access
\* raised IndexError.  reads: the indices the growth tests named.
ExtendRound(start, end, prop_list, threshold_sum, seq_len) ==
    LET n == Cardinality(DOMAIN prop_list)
        tryL == LeftGuard(start, end)
        raiseL == tryL /\ IndexRaises(n, start - 1)
        readsL == IF tryL THEN {start - 1, start, start + 1, start + 2} ELSE {}
        growL == /\ tryL
                 /\ ~raiseL
                 /\ MeetsThreshold(ListGet(prop_list, n, start - 1)
                                     + SumSlice(prop_list, n, start, start + 3),
                                   threshold_sum)
        start1 == IF growL THEN start - 1 ELSE start
        tryR == ~raiseL /\ RightGuard(end, start1, seq_len)
        raiseR == tryR /\ IndexRaises(n, end + 1)
        readsR == IF tryR THEN {end - 2, end - 1, end, end + 1} ELSE {}
        growR == /\ tryR
                 /\ ~raiseR
                 /\ MeetsThreshold(SumSlice(prop_list, n, end - 2, end + 1)
                                     + ListGet(prop_list, n, end + 1),
                                   threshold_sum)
    IN  [start |-> start1,
         end |-> IF growR THEN end + 1 ELSE end,
         changed |-> RoundChanged(growL, tryR, growR),
         raised |-> raiseL \/ raiseR,
         reads |-> readsL \cup readsR]

\* the whole call, for a call that raises nothing
RECURSIVE extend_segment(_, _, _, _, _)
extend_segment(start, end, prop_list, threshold_sum, seq_len) ==
    LET r == ExtendRound(start, end, prop_list, threshold_sum, seq_len)
    IN  IF r.changed /\ ~r.raised
        THEN extend_segment(r.start, r.end, prop_list, threshold_sum, seq_len)
        ELSE <<r.start, r.end>>

---------------------------------------------------------------------------
(* merge_segments *)

\* tuple order of sorted()
TupleLE(a, b) == a[1] < b[1] \/ (a[1] = b[1] /\ a[2] <= b[2])

RECURSIVE InsertSorted(_, _)
InsertSorted(x, lst) ==
    IF lst = <<>> THEN <<x>>
    ELSE IF TupleLE(x, Head(lst)) THEN <<x>> \o lst
    ELSE <<Head(lst)>> \o InsertSorted(x, Tail(lst))

RECURSIVE sorted(_)
sorted(lst) ==
    IF lst = <<>> THEN <<>> ELSE InsertSorted(Head(lst), sorted(Tail(lst)))

\* Variant: a segment that only touches the accumulator is not merged.
Touches_overlap_only(seg_s, me) == seg_s <= me

\* Variant: a segment one residue apart from the accumulator is merged.
Touches_gap(seg_s, me) == seg_s <= me + 2

Touches(seg_s, me) == seg_s <= me + 1

\* Variant: the accumulator takes the end of the segment merged last.
MergedEnd_last(me, seg_e) == seg_e

MergedEnd(me, seg_e) == Max(me, seg_e)

RECURSIVE MergeLoop(_, _)
MergeLoop(merged, rest) ==
    IF rest = <<>> THEN merged
    ELSE LET last == merged[Len(merged)]
             seg == Head(rest)
         IN  IF Touches(seg[1], last[2])
             THEN MergeLoop([merged EXCEPT ![Len(merged)] =
                                <<last[1], MergedEnd(last[2], seg[2])>>],
                            Tail(rest))
             ELSE MergeLoop(Append(merged, seg), Tail(rest))

merge_segments(segs) ==
    IF segs = <<>> THEN <<>>
    ELSE LET srt == sorted(segs) IN MergeLoop(<<Head(srt)>>, Tail(srt))

---------------------------------------------------------------------------
(* segments_from_labels, and the same scan as the script runs it on
   conflict_mask *)

\* the last index of the run of marked indices that starts at k
RECURSIVE RunEnd(_, _, _)
RunEnd(mask, k, n) ==
    IF k + 1 < n /\ mask[k + 1] THEN RunEnd(mask, k + 1, n) ELSE k

RECURSIVE RunsFrom(_, _, _, _)
RunsFrom(mask, k, n, out) ==
    IF k >= n THEN out
    ELSE IF mask[k]
         THEN RunsFrom(mask, RunEnd(mask, k, n) + 1, n,
                       Append(out, <<k, RunEnd(mask, k, n)>>))
         ELSE RunsFrom(mask, k + 1, n, out)

segments_from_labels(labels, target) ==
    RunsFrom([k \in DOMAIN labels |-> labels[k] = target], 0,
             Cardinality(DOMAIN labels), <<>>)

---------------------------------------------------------------------------
(* Label projection and conflict resolution *)

InSomeSegment(k, segs) ==
    \E x \in 1..Len(segs) : segs[x][1] <= k /\ k <= segs[x][2]

\* ['-'] * N, then every index of every segment painted with sym
Painted(segs, sym) ==
    [k \in DOMAIN SEQ |-> IF InSomeSegment(k, segs) THEN sym ELSE "-"]

conflict_mask == [k \in DOMAIN SEQ |-> labels_H[k] = "H" /\ labels_S[k] = "S"]

\* final_labels before the regions are resolved; "X" marks an overlap
InitialFinal ==
    [k \in DOMAIN SEQ |->
        LET afterH == IF labels_H[k] = "H" THEN "H" ELSE "-"
        IN  IF labels_S[k] = "S"
            THEN (IF afterH = "-" THEN "S" ELSE "X")
            ELSE afterH]

\* a mean is kept as <<sum, length>>; a > b for two means
MeanGreater(a, b) == a[1] * b[2] > b[1] * a[2]

\* Variant: strand wins a tie.
Chosen_strand_on_tie(avg_pa, avg_pb) ==
    IF MeanGreater(avg_pa, avg_pb) THEN "H" ELSE "S"

Chosen(avg_pa, avg_pb) == IF MeanGreater(avg_pb, avg_pa) THEN "S" ELSE "H"

\* Variant: range(s, e), one index short.
RegionRange_short(rs, re) == rs..(re - 1)

\* range(s, e + 1) of the region loop
RegionRange(rs, re) == rs..re

\* the loop over conflict_regions: <<final_labels, resolved_choices>>
RECURSIVE ResolveLoop(_, _, _)
ResolveLoop(fl, rc, regions) ==
    IF regions = <<>> THEN <<fl, rc>>
    ELSE LET rs == Head(regions)[1]
             re == Head(regions)[2]
             length == re - rs + 1
             avg_pa == <<SumSlice(Palpha_list, N, rs, re + 1), length>>
             avg_pb == <<SumSlice(Pbeta_list, N, rs, re + 1), length>>
             chosen == Chosen(avg_pa, avg_pb)
         IN  ResolveLoop(
                 [k \in DOMAIN fl |->
                     IF k \in RegionRange(rs, re) THEN chosen ELSE fl[k]],
                 Append(rc, <<rs, re, chosen, avg_pa, avg_pb>>),
                 Tail(regions))

\* the clean-up loop: a remaining "X" becomes "H"
Cleaned(fl) == [k \in DOMAIN fl |-> IF fl[k] = "X" THEN "H" ELSE fl[k]]

---------------------------------------------------------------------------
(* The script *)

Seqs(n) == [0..(n - 1) -> Residues]

\* the lists of the script before it has assigned them
FreshLists ==
    /\ reads = {}
    /\ seeds_H = <<>>
    /\ seeds_S = <<>>
    /\ segments = <<>>
    /\ labels_H = <<>>
    /\ labels_S = <<>>
    /\ conflict_regions = <<>>
    /\ final_labels = <<>>
    /\ resolved_choices = <<>>

\* everything but SEQ and pc, before the script has assigned it
Fresh ==
    /\ i = 0
    /\ s = 0
    /\ e = 0
    /\ changed = FALSE
    /\ helix_segments = <<>>
    /\ strand_segments = <<>>
    /\ FreshLists

Init ==
    /\ \E n \in 0..MaxN : SEQ \in Seqs(n)
    /\ pc = "helix_scan"
    /\ Fresh

\* one iteration of the helix nucleation loop
HelixScan ==
    /\ pc = "helix_scan"
    /\ i <= N - wH
    /\ IF window_has_min_over_1(Palpha_list, N, i, i + wH, 4)
       THEN /\ s' = i
            /\ e' = i + wH - 1
            /\ seeds_H' = Append(seeds_H, <<i, i + wH - 1>>)
            /\ changed' = TRUE
            /\ pc' = "helix_ext"
            /\ UNCHANGED i
       ELSE /\ i' = i + 1
            /\ UNCHANGED <<s, e, seeds_H, changed, pc>>
    /\ UNCHANGED <<SEQ, reads, seeds_S, helix_segments, strand_segments,
                   segments, labels_H, labels_S, conflict_regions,
                   final_labels, resolved_choices>>

\* one iteration of the strand nucleation loop
StrandScan ==
    /\ pc = "strand_scan"
    /\ i <= N - wS
    /\ IF window_has_min_over_1(Pbeta_list, N, i, i + wS, 3)
       THEN /\ s' = i
            /\ e' = i + wS - 1
            /\ seeds_S' = Append(seeds_S, <<i, i + wS - 1>>)
            /\ changed' = TRUE
            /\ pc' = "strand_ext"
            /\ UNCHANGED i
       ELSE /\ i' = i + 1
            /\ UNCHANGED <<s, e, seeds_S, changed, pc>>
    /\ UNCHANGED <<SEQ, reads, seeds_H, helix_segments, strand_segments,
                   segments, labels_H, labels_S, conflict_regions,
                   final_labels, resolved_choices>>

\* the propensity list and threshold of the running call of extend_segment
CallProps == IF pc = "helix_ext" THEN Palpha_list ELSE Pbeta_list

CallThreshold == IF pc = "helix_ext" THEN threshold_H ELSE threshold_S

\* one pass of extend_segment's while loop
ExtendStep ==
    /\ pc \in {"helix_ext", "strand_ext"}
    /\ changed
    /\ LET r == ExtendRound(s, e, CallProps, CallThreshold, N)
       IN  /\ s' = r.start
           /\ e' = r.end
           /\ changed' = r.changed
           /\ reads' = r.reads
           /\ pc' = IF r.raised THEN "IndexError" ELSE pc
    /\ UNCHANGED <<SEQ, i, seeds_H, seeds_S, helix_segments, strand_segments,
                   segments, labels_H, labels_S, conflict_regions,
                   final_labels, resolved_choices>>

\* extend_segment returns into the helix loop
HelixExtendReturn ==
    /\ pc = "helix_ext"
    /\ ~changed
    /\ helix_segments' = Append(helix_segments, <<s, e>>)
    /\ i' = i + 1
    /\ pc' = "helix_scan"
    /\ UNCHANGED <<SEQ, s, e, changed, reads, seeds_H, seeds_S,
                   strand_segments, segments, labels_H, labels_S,
                   conflict_regions, final_labels, resolved_choices>>

\* extend_segment returns into the strand loop
StrandExtendReturn ==
    /\ pc = "strand_ext"
    /\ ~changed
    /\ strand_segments' = Append(strand_segments, <<s, e>>)
    /\ i' = i + 1
    /\ pc' = "strand_scan"
    /\ UNCHANGED <<SEQ, s, e, changed, reads, seeds_H, seeds_S,
                   helix_segments, segments, labels_H, labels_S,
                   conflict_regions, final_labels, resolved_choices>>

\* the helix loop is over: helix_segments = merge_segments(helix_segments)
HelixMerge ==
    /\ pc = "helix_scan"
    /\ i > N - wH
    /\ segments' = helix_segments
    /\ helix_segments' = merge_segments(helix_segments)
    /\ i' = 0
    /\ pc' = "strand_scan"
    /\ UNCHANGED <<SEQ, s, e, changed, reads, seeds_H, seeds_S,
                   strand_segments, labels_H, labels_S, conflict_regions,
                   final_labels, resolved_choices>>

\* the strand loop is over: strand_segments = merge_segments(strand_segments)
StrandMerge ==
    /\ pc = "strand_scan"
    /\ i > N - wS
    /\ segments' = strand_segments
    /\ strand_segments' = merge_segments(strand_segments)
    /\ pc' = "project"
    /\ UNCHANGED <<SEQ, i, s, e, changed, reads, seeds_H, seeds_S,
                   helix_segments, labels_H, labels_S, conflict_regions,
                   final_labels, resolved_choices>>

\* labels_H and labels_S
Project ==
    /\ pc = "project"
    /\ labels_H' = Painted(helix_segments, "H")
    /\ labels_S' = Painted(strand_segments, "S")
    /\ i' = 0
    /\ pc' = "find_conflicts"
    /\ UNCHANGED <<SEQ, s, e, changed, reads, seeds_H, seeds_S,
                   helix_segments, strand_segments, segments,
                   conflict_regions, final_labels, resolved_choices>>

\* one iteration of the outer while loop of the conflict scan
FindConflicts ==
    /\ pc = "find_conflicts"
    /\ i < N
    /\ IF conflict_mask[i]
       THEN LET j == RunEnd(conflict_mask, i, N)
            IN  /\ conflict_regions' = Append(conflict_regions, <<i, j>>)
                /\ i' = j + 1
       ELSE /\ i' = i + 1
            /\ UNCHANGED conflict_regions
    /\ UNCHANGED <<SEQ, pc, s, e, changed, reads, seeds_H, seeds_S,
                   helix_segments, strand_segments, segments, labels_H,
                   labels_S, final_labels, resolved_choices>>

\* the conflict scan is over: final_labels with its overlap marks
PaintFinal ==
    /\ pc = "find_conflicts"
    /\ i >= N
    /\ final_labels' = InitialFinal
    /\ pc' = "resolve"
    /\ UNCHANGED <<SEQ, i, s, e, changed, reads, seeds_H, seeds_S,
                   helix_segments, strand_segments, segments, labels_H,
                   labels_S, conflict_regions, resolved_choices>>

\* the loop over conflict_regions
Resolve ==
    /\ pc = "resolve"
    /\ LET r == ResolveLoop(final_labels, <<>>, conflict_regions)
       IN  /\ final_labels' = r[1]
           /\ resolved_choices' = r[2]
    /\ pc' = "clean"
    /\ UNCHANGED <<SEQ, i, s, e, changed, reads, seeds_H, seeds_S,
                   helix_segments, strand_segments, segments, labels_H,
                   labels_S, conflict_regions>>

\* the clean-up loop
Clean ==
    /\ pc = "clean"
    /\ final_labels' = Cleaned(final_labels)
    /\ pc' = "done"
    /\ UNCHANGED <<SEQ, i, s, e, changed, reads, seeds_H, seeds_S,
                   helix_segments, strand_segments, segments, labels_H,
                   labels_S, conflict_regions, resolved_choices>>

Next ==
    \/ HelixScan
    \/ ExtendStep
    \/ HelixExtendReturn
    \/ HelixMerge
    \/ StrandScan
    \/ StrandExtendReturn
    \/ StrandMerge
    \/ Project
    \/ FindConflicts
    \/ PaintFinal
    \/ Resolve
    \/ Clean

Spec == Init /\ [][Next]_vars

---------------------------------------------------------------------------
(* extend_segment alone: any propensity list of the two tables, either
   threshold, any initial segment of the list *)

InitExtend ==
    /\ \E n \in 1..MaxExtLen : SEQ \in Seqs(n)
    /\ pc \in {"helix_ext", "strand_ext"}
    /\ s \in DOMAIN SEQ
    /\ e \in DOMAIN SEQ
    /\ s <= e
    /\ i = s
    /\ changed = TRUE
    /\ helix_segments = <<>>
    /\ strand_segments = <<>>
    /\ FreshLists

NextExtend == ExtendStep \/ HelixExtendReturn \/ StrandExtendReturn

SpecExtend == InitExtend /\ [][NextExtend]_vars

---------------------------------------------------------------------------
(* merge_segments alone: any list of up to MaxSegs segments in 0..MaxPos,
   as the helix list or as the strand list *)

AnySegment == {x \in (0..MaxPos) \X (0..MaxPos) : x[1] <= x[2]}

AnySegmentList == UNION {[1..n -> AnySegment] : n \in 0..MaxSegs}

InitMerge ==
    /\ SEQ = <<>>
    /\ \/ /\ pc = "helix_scan"
          /\ helix_segments \in AnySegmentList
          /\ strand_segments = <<>>
       \/ /\ pc = "strand_scan"
          /\ helix_segments = <<>>
          /\ strand_segments \in AnySegmentList
    /\ i = 0
    /\ s = 0
    /\ e = 0
    /\ changed = FALSE
    /\ FreshLists

NextMerge == HelixMerge \/ StrandMerge

SpecMerge == InitMerge /\ [][NextMerge]_vars

---------------------------------------------------------------------------
(* The resolver alone: any sequence with any two merged segment sets *)

\* the merged segment sets over 0..n-1: the runs of any painting
SegmentSets(n, sym) ==
    {segments_from_labels(lab, sym) : lab \in [0..(n - 1) -> {"-", sym}]}

InitResolve ==
    /\ \E n \in 0..MaxResLen :
          /\ SEQ \in Seqs(n)
          /\ helix_segments \in SegmentSets(n, "H")
          /\ strand_segments \in SegmentSets(n, "S")
    /\ pc = "project"
    /\ i = 0
    /\ s = 0
    /\ e = 0
    /\ changed = FALSE
    /\ FreshLists

NextResolve == Project \/ FindConflicts \/ PaintFinal \/ Resolve \/ Clean

SpecResolve == InitResolve /\ [][NextResolve]_vars

---------------------------------------------------------------------------
(* Properties *)

HelixScanning == pc \in {"helix_scan", "helix_ext"}

StrandScanning == pc \in {"strand_scan", "strand_ext"}

Extending == pc \in {"helix_ext", "strand_ext"}

\* the result of the last call of merge_segments, whose argument is segments
LastMerged == IF StrandScanning THEN helix_segments ELSE strand_segments

AfterMerge == ~HelixScanning

SortedApart(segs) ==
    \A x \in 1..(Len(segs) - 1) :
        /\ segs[x][1] <= segs[x + 1][1]
        /\ segs[x][2] + 1 < segs[x + 1][1]

\* C1: the list merge_segments returns (helix_segments and strand_segments
\* from their merge on) is sorted by start, and consecutive segments
\* (s_i, e_i), (s_j, e_j) of it satisfy e_i + 1 < s_j
C1_MergedDisjoint ==
    /\ AfterMerge => SortedApart(LastMerged)
    /\ ~HelixScanning => SortedApart(helix_segments)
    /\ ~HelixScanning /\ ~StrandScanning => SortedApart(strand_segments)

\* three segments in no order, two of which touch, were merged into two
C1_Witness ==
    /\ pc = "strand_scan"
    /\ Len(segments) = 3
    /\ segments[2][1] < segments[1][1]
    /\ \E x, y \in 1..3 : segments[x][2] + 1 = segments[y][1]
    /\ Len(helix_segments) = 2

Covered(segs) == UNION {segs[x][1]..segs[x][2] : x \in 1..Len(segs)}

Reversed(segs) == [x \in 1..Len(segs) |-> segs[Len(segs) + 1 - x]]

\* any two segments of the list are apart: neither overlapping nor touching
PairwiseApart(segs) ==
    \A x, y \in 1..Len(segs) :
        x # y => segs[x][2] + 1 < segs[y][1] \/ segs[y][2] + 1 < segs[x][1]

\* C6: a list whose segments are pairwise apart is returned by merge_segments
\* with the same segments, sorted by start; and merging the returned list
\* again returns it unchanged
C6_MergeIdempotent ==
    AfterMerge =>
        /\ PairwiseApart(segments) =>
              /\ Len(LastMerged) = Len(segments)
              /\ {LastMerged[x] : x \in 1..Len(LastMerged)}
                    = {segments[x] : x \in 1..Len(segments)}
              /\ \A x \in 1..(Len(LastMerged) - 1) :
                    LastMerged[x][1] < LastMerged[x + 1][1]
        /\ merge_segments(LastMerged) = LastMerged

\* three segments, pairwise apart and out of order, were merged
C6_Witness ==
    /\ pc = "strand_scan"
    /\ Len(segments) = 3
    /\ PairwiseApart(segments)
    /\ segments[1][1] > segments[3][1]
    /\ Len(helix_segments) = 3

\* C10: the indices covered by the list merge_segments returns are the
\* indices covered by its argument, and the argument listed in the opposite
\* order gives the same list
C10_MergeKeepsCoverage ==
    AfterMerge =>
        /\ Covered(LastMerged) = Covered(segments)
        /\ merge_segments(Reversed(segments)) = LastMerged

\* a segment nested in an earlier, longer one was merged, with a third apart
C10_Witness ==
    /\ pc = "strand_scan"
    /\ Len(segments) = 3
    /\ \E x, y \in 1..3 :
          /\ segments[x][1] < segments[y][1]
          /\ segments[y][2] < segments[x][2]
    /\ Len(helix_segments) = 2

---------------------------------------------------------------------------

\* C2: when the resolver has finished, final_labels has length N and holds
\* one of "-", "H", "S" at every index; the overlap mark "X" is at no index,
\* and is already at none when the region loop ends, before the clean-up
C2_FinalLabels ==
    /\ pc = "done" =>
          /\ DOMAIN final_labels = 0..(N - 1)
          /\ \A k \in 0..(N - 1) : final_labels[k] \in {"-", "H", "S"}
    /\ pc = "clean" => \A k \in DOMAIN final_labels : final_labels[k] # "X"

\* the resolver finished on a sequence with two conflict regions and an
\* unassigned residue
C2_Witness ==
    /\ pc = "done"
    /\ Len(conflict_regions) = 2
    /\ \E k \in DOMAIN final_labels : final_labels[k] = "-"

InBoth(k) == labels_H[k] = "H" /\ labels_S[k] = "S"

\* a..b is a maximal run of indices painted both helix and strand
ConflictRun(a, b) ==
    /\ a <= b
    /\ \A k \in a..b : InBoth(k)
    /\ a = 0 \/ ~InBoth(a - 1)
    /\ b = N - 1 \/ ~InBoth(b + 1)

\* mean strand propensity > mean helix propensity over a..b; both means
\* divide by the same length b - a + 1
StrandMeanGreater(a, b) ==
    SumRange(Pbeta_list, a, b + 1) * (b - a + 1)
        > SumRange(Palpha_list, a, b + 1) * (b - a + 1)

\* C3: every index of a conflict region is finally strand if the mean strand
\* propensity over the region is strictly greater than the mean helix
\* propensity over it, and helix otherwise, a tie included
C3_ConflictChoice ==
    pc \in {"clean", "done"} =>
        \A a, b \in DOMAIN SEQ :
            ConflictRun(a, b) =>
                \A k \in a..b :
                    final_labels[k] = IF StrandMeanGreater(a, b) THEN "S" ELSE "H"

\* two conflict regions were resolved: a tie, to helix, and one to strand
C3_Witness ==
    /\ pc = "done"
    /\ \E a, b \in DOMAIN SEQ :
          /\ ConflictRun(a, a)
          /\ ConflictRun(b, b)
          /\ Palpha_list[a] = Pbeta_list[a]
          /\ final_labels[a] = "H"
          /\ final_labels[b] = "S"

---------------------------------------------------------------------------

\* the start indices 0..N-w in ascending order
WindowStarts(w) == [x \in 1..(N - w + 1) |-> x - 1]

NumOver1(prop_list, a, b) == Cardinality({k \in a..b : prop_list[k] > One})

\* the windows [i, i+w-1] with at least m values over 1.0, by ascending i
SeedsWanted(prop_list, w, m) ==
    LET Qualifies(st) == NumOver1(prop_list, st, st + w - 1) >= m
        starts == SelectSeq(WindowStarts(w), Qualifies)
    IN  [x \in 1..Len(starts) |-> <<starts[x], starts[x] + w - 1>>]

\* C4: the helix scan (w = 6, m = 4) and the strand scan (w = 5, m = 3) seed
\* [i, i+w-1] for exactly the i in 0..N-w with at least m of the w values
\* strictly greater than 1.0, in ascending order of i, and nothing if N < w
C4_SeedsExact ==
    /\ ~HelixScanning => seeds_H = SeedsWanted(Palpha_list, wH, 4)
    /\ ~HelixScanning /\ ~StrandScanning =>
          seeds_S = SeedsWanted(Pbeta_list, wS, 3)

\* both scans seeded some windows and passed over others, one of them a
\* window whose count falls short only because a value is exactly 1.0
C4_Witness ==
    /\ pc = "done"
    /\ Len(seeds_H) >= 1
    /\ Len(seeds_H) < N - wH + 1
    /\ Len(seeds_S) >= 2
    /\ Len(seeds_S) < N - wS + 1
    /\ \E st \in 0..(N - wH) :
          /\ NumOver1(Palpha_list, st, st + wH - 1) = 3
          /\ \E k \in st..(st + wH - 1) : Palpha_list[k] = One

Unknown(k) == SEQ[k] \notin DOMAIN P_ALPHA /\ SEQ[k] \notin DOMAIN P_BETA

AllSeeds == {seeds_H[x] : x \in 1..Len(seeds_H)} \cup {seeds_S[x] : x \in 1..Len(seeds_S)}

NumUnknown(seed) == Cardinality({k \in seed[1]..seed[2] : Unknown(k)})

\* C7 as stated: a residue in neither table has propensity 0.0 in both
\* lists and lies in no seeded window
C7_UnknownNeverSeeded ==
    /\ \A k \in DOMAIN SEQ : Unknown(k) => Palpha_list[k] = 0 /\ Pbeta_list[k] = 0
    /\ \A seed \in AllSeeds : NumUnknown(seed) = 0

\* C7 as amended: a residue in neither table has propensity 0.0 in both
\* lists and is never one of the residues over 1.0 a window needs: a seeded
\* helix window holds at most 6 - 4 and a seeded strand window at most 5 - 3
\* such residues
C7_UnknownNeverCounts ==
    /\ \A k \in DOMAIN SEQ : Unknown(k) => Palpha_list[k] = 0 /\ Pbeta_list[k] = 0
    /\ \A x \in 1..Len(seeds_H) : NumUnknown(seeds_H[x]) <= wH - 4
    /\ \A x \in 1..Len(seeds_S) : NumUnknown(seeds_S[x]) <= wS - 3

\* a helix window and a strand window were seeded that hold such a residue
C7_Witness ==
    /\ \E x \in 1..Len(seeds_H) : NumUnknown(seeds_H[x]) >= 1
    /\ \E x \in 1..Len(seeds_S) : NumUnknown(seeds_S[x]) >= 1

---------------------------------------------------------------------------

\* the left growth test on [start, end]
LeftTestPasses(prop_list, threshold_sum, start, end) ==
    /\ start > 0
    /\ end - start + 1 >= 3
    /\ prop_list[start - 1] + prop_list[start] + prop_list[start + 1]
           + prop_list[start + 2] >= threshold_sum

\* the right growth test on [start, end]
RightTestPasses(prop_list, threshold_sum, start, end) ==
    /\ end < N - 1
    /\ end - start + 1 >= 3
    /\ prop_list[end - 2] + prop_list[end - 1] + prop_list[end]
           + prop_list[end + 1] >= threshold_sum

\* C5: on the segment extend_segment returns neither the left nor the right
\* growth test passes, and extend_segment called on it returns it unchanged
C5_ExtendFixedPoint ==
    Extending /\ ~changed =>
        /\ ~LeftTestPasses(CallProps, CallThreshold, s, e)
        /\ ~RightTestPasses(CallProps, CallThreshold, s, e)
        /\ extend_segment(s, e, CallProps, CallThreshold, N) = <<s, e>>

\* extend_segment returns a segment it grew to the left, that stops short of
\* both ends of the sequence
C5_Witness ==
    /\ Extending
    /\ ~changed
    /\ s < i
    /\ s > 0
    /\ e < N - 1
    /\ e - s + 1 >= 4

\* the passes of a loop that are still to come, at most
LoopRank ==
    IF HelixScanning \/ StrandScanning
    THEN (N + 1 - i) * (2 * N + 4)
            + (IF Extending
               THEN 2 * (N - (e - s + 1)) + (IF changed THEN 2 ELSE 1)
               ELSE 2 * N + 3)
    ELSE IF pc = "find_conflicts" THEN N + 1 - i
    ELSE 0

\* the statements of the script that are still to come
PhaseRank ==
    CASE HelixScanning -> 6
      [] StrandScanning -> 5
      [] pc = "project" -> 4
      [] pc = "find_conflicts" -> 3
      [] pc = "resolve" -> 2
      [] pc = "clean" -> 1
      [] OTHER -> 0

\* a bound on the steps the script has left
Rank == PhaseRank * (N + 2) * (2 * N + 4) + LoopRank

\* the positions of the script: at each but "done" one of the actions is
\* enabled, their guards being each other's negations
ScriptPositions ==
    {"helix_scan", "helix_ext", "strand_scan", "strand_ext", "project",
     "find_conflicts", "resolve", "clean", "done"}

\* the pass extend_segment's loop is about to make either ends the loop or
\* makes the segment strictly longer
PassGrows ==
    Extending /\ changed =>
        LET r == ExtendRound(s, e, CallProps, CallThreshold, N)
        IN  r.changed => r.end - r.start > e - s

\* C8: the script terminates: it is never stopped before its end, every step
\* lowers a bound on the steps left, which is never negative; in particular
\* a pass of extend_segment's loop that does not end the loop makes the
\* segment strictly longer, and the segment is never longer than N
C8_Terminates ==
    /\ [](pc \in ScriptPositions)
    /\ [](Rank >= 0)
    /\ [][Rank' < Rank]_vars
    /\ [](PassGrows)
    /\ [](Extending => e - s + 1 <= N)

\* the script ended after a helix segment was grown from its seed and a
\* conflict region was found
C8_Witness ==
    /\ pc = "done"
    /\ \E x \in 1..Len(helix_segments) :
          helix_segments[x][2] - helix_segments[x][1] + 1 > wH
    /\ conflict_regions # <<>>

InRange(seg) == 0 <= seg[1] /\ seg[1] <= seg[2] /\ seg[2] <= N - 1

\* C9: every seeded segment and every segment extend_segment holds or
\* returns satisfies 0 <= start <= end <= N-1, every index a growth test
\* names lies in 0..N-1, and no access raises IndexError
C9_IndicesInRange ==
    /\ pc # "IndexError"
    /\ Extending => InRange(<<s, e>>)
    /\ reads \subseteq 0..(N - 1)
    /\ \A seed \in AllSeeds : InRange(seed)
    /\ HelixScanning => \A x \in 1..Len(helix_segments) : InRange(helix_segments[x])
    /\ StrandScanning => \A x \in 1..Len(strand_segments) : InRange(strand_segments[x])

\* a call of extend_segment ends on a segment it grew to both ends of the
\* sequence, where both growth tests are skipped
C9_Witness ==
    /\ pc = "helix_ext"
    /\ ~changed
    /\ s = 0
    /\ e = N - 1
    /\ N > wH + 1
    /\ reads = {}

===========================================================================
